---------------------------- MODULE Spec2Model ----------------------------
(***************************************************************************)
(* go1090: Mode S / ADS-B decoder (package mode_s) and its aircraft map.   *)
(*                                                                         *)
(* Frames are sequences of 14 bytes (0..255); bit 0 of a frame is the most *)
(* significant bit of byte 0.  24-bit quantities (CRC, ICAO address) are   *)
(* natural numbers below 2^24.  Wall-clock time is counted in              *)
(* milliseconds.                                                           *)
(***************************************************************************)
EXTENDS Integers, Sequences, FiniteSets, TLC

VARIABLES
    now,          \* wall clock, milliseconds
    fix_errors,   \* Decoder.fix_errors
    aggressive,   \* Decoder.aggressive
    icao_cache,   \* Decoder.icao_cache: address -> expiration instant
    air,          \* the frame as it was sent and the bit positions the channel flipped
    rcv,          \* the frame handed to the message handler (<<>> before the first)
    mm,           \* the ModeSMessage filled by DecodeModesMessage
    pc,           \* position of the receive goroutine's handler
    aircrafts,    \* Sky.aircrafts: address -> Aircraft
    ret,          \* what the last UpdateData returned: {} (nil) or {address}
    op,           \* history: name of the last operation that ran
    ran,          \* history: sub-procedures the last operation called
    inserted_at,  \* history: address -> instant of its last cache insertion
    nframes,      \* number of frames received so far
    mux,          \* Sky.mux: "free" or the goroutine that holds it
    tpc,          \* position of the ticker goroutine inside RemoveStaleAircrafts
    remKeys,      \* RemoveStaleAircrafts' local remKeys
    sweep_now,    \* RemoveStaleAircrafts' local now
    last_update,  \* history: address -> instant its last accepted UpdateData completed
    snap,         \* the map the last Aircrafts() call returned: address -> *Aircraft
    snap_expect,  \* history: that map's content as returned and as its caller changed it
    nsnaps,       \* number of Aircrafts() calls so far
    line,         \* the line the scanner of StartReceive read last
    parsed,       \* what parseADSB returned for it: {} (nil) or {the ADSBMsg}
    nlines,       \* number of lines read so far
    args,         \* the arguments of a function called on its own
    result        \* what it returned (<<>> before the call)

\* the mutex of the sky, the locals of a sweep in progress, and its history
lockvars == << mux, tpc, remKeys, sweep_now, last_update >>

\* the snapshot a caller of Aircrafts() holds, and its history
snapvars == << snap, snap_expect, nsnaps >>

\* the receive goroutine's scanner loop
linevars == << line, parsed, nlines >>

\* a function called on its own
fnvars == << args, result >>

vars == << now, fix_errors, aggressive, icao_cache, air, rcv, mm, pc, aircrafts,
           ret, op, ran, inserted_at, nframes, lockvars, snapvars, linevars,
           fnvars >>

-----------------------------------------------------------------------------
(* Program constants *)

MODES_LONG_MSG_BITS == 112
MODES_SHORT_MSG_BITS == 56
MODES_LONG_MSG_BYTES == 14
MODES_ICAO_CACHE_TTL == 60
MODES_AIRCRAFT_TTL == 60
MODES_UNIT_FEET == 0
MODES_UNIT_METERS == 1
CPR_MAX_AGE_MS == 10000

-----------------------------------------------------------------------------
(* Byte and bit primitives *)

\* bit k (0 = least significant) of the integer x
Bit(x, k) == (x \div (2 ^ k)) % 2

RECURSIVE XorBits(_, _, _)
XorBits(a, b, n) ==
    IF n = 0 THEN 0
    ELSE ((a + b) % 2) + 2 * XorBits(a \div 2, b \div 2, n - 1)

\* a ^ b on bytes, tabulated
XorByte == [a \in 0..255 |-> [b \in 0..255 |-> XorBits(a, b, 8)]]

\* a ^ b on uint32 values below 2^24
Xor24(a, b) ==
      XorByte[a \div 65536][b \div 65536] * 65536
    + XorByte[(a \div 256) % 256][(b \div 256) % 256] * 256
    + XorByte[a % 256][b % 256]

\* message bit j (0 = MSB of byte 0): msg[j/8] & (1 << (7 - j%8)) != 0
MsgBit(msg, j) == Bit(msg[(j \div 8) + 1], 7 - (j % 8)) = 1

\* aux[j/8] ^= 1 << (7 - j%8)
FlipBit(msg, j) ==
    [msg EXCEPT ![(j \div 8) + 1] = XorByte[@][2 ^ (7 - (j % 8))]]

\* (msg[n-3] << 16) | (msg[n-2] << 8) | msg[n-1], n = number of bytes
TrailingCrc(msg, n) == msg[n - 2] * 65536 + msg[n - 1] * 256 + msg[n]

-----------------------------------------------------------------------------
(* CRC engine *)

modesChecksumTable == <<
    \H3935ea, \H1c9af5, \Hf1b77e, \H78dbbf, \Hc397db, \H9e31e9, \Hb0e2f0, \H587178,
    \H2c38bc, \H161c5e, \H0b0e2f, \Hfa7d13, \H82c48d, \Hbe9842, \H5f4c21, \Hd05c14,
    \H682e0a, \H341705, \He5f186, \H72f8c3, \Hc68665, \H9cb936, \H4e5c9b, \Hd8d449,
    \H939020, \H49c810, \H24e408, \H127204, \H093902, \H049c81, \Hfdb444, \H7eda22,
    \H3f6d11, \He04c8c, \H702646, \H381323, \He3f395, \H8e03ce, \H4701e7, \Hdc7af7,
    \H91c77f, \Hb719bb, \Ha476d9, \Hadc168, \H56e0b4, \H2b705a, \H15b82d, \Hf52612,
    \H7a9309, \Hc2b380, \H6159c0, \H30ace0, \H185670, \H0c2b38, \H06159c, \H030ace,
    \H018567, \Hff38b7, \H80665f, \Hbfc92b, \Ha01e91, \Haff54c, \H57faa6, \H2bfd53,
    \Hea04ad, \H8af852, \H457c29, \Hdd4410, \H6ea208, \H375104, \H1ba882, \H0dd441,
    \Hf91024, \H7c8812, \H3e4409, \He0d800, \H706c00, \H383600, \H1c1b00, \H0e0d80,
    \H0706c0, \H038360, \H01c1b0, \H00e0d8, \H00706c, \H003836, \H001c1b, \Hfff409,
    \H000000, \H000000, \H000000, \H000000, \H000000, \H000000, \H000000, \H000000,
    \H000000, \H000000, \H000000, \H000000, \H000000, \H000000, \H000000, \H000000,
    \H000000, \H000000, \H000000, \H000000, \H000000, \H000000, \H000000, \H000000 >>

\* the loop body of modesChecksum for table bit t and byte value b:
\* "if bit is set, xor with corresponding table entry"
TableIfSet(b, k, t) == IF Bit(b, 7 - k) = 1 THEN modesChecksumTable[t + k + 1] ELSE 0

\* the eight loop iterations of modesChecksum that read one byte b whose
\* first bit has table index t (= j + offset, j a multiple of 8)
ChecksumOfByte(b, t) ==
    Xor24(Xor24(Xor24(TableIfSet(b, 0, t), TableIfSet(b, 1, t)),
                Xor24(TableIfSet(b, 2, t), TableIfSet(b, 3, t))),
          Xor24(Xor24(TableIfSet(b, 4, t), TableIfSet(b, 5, t)),
                Xor24(TableIfSet(b, 6, t), TableIfSet(b, 7, t))))

\* ChecksumOfByte tabulated: table byte position p (0..13) x byte value
ByteParity == [p \in 0..13 |-> [b \in 0..255 |-> ChecksumOfByte(b, 8 * p)]]

RECURSIVE ChecksumLoop(_, _, _, _)
ChecksumLoop(msg, bits, offset, j) ==
    IF j >= bits THEN 0
    ELSE Xor24(ByteParity[(j + offset) \div 8][msg[(j \div 8) + 1]],
               ChecksumLoop(msg, bits, offset, j + 8))

modesChecksum(msg, bits) ==
    ChecksumLoop(msg, bits, IF bits = 112 THEN 0 ELSE 112 - 56, 0)

\* variant: a length table that takes DF 18 for a long format
modesMessageLenByTypeWithDF18(msgType) ==
    IF msgType \in {16, 17, 18, 19, 20, 21}
    THEN MODES_LONG_MSG_BITS
    ELSE MODES_SHORT_MSG_BITS

\* variant: a length table that leaves out DF 17
modesMessageLenByTypeNoDF17(msgType) ==
    IF msgType \in {16, 19, 20, 21} THEN MODES_LONG_MSG_BITS ELSE MODES_SHORT_MSG_BITS

modesMessageLenByType(msgType) ==
    IF msgType \in {16, 17, 19, 20, 21}
    THEN MODES_LONG_MSG_BITS
    ELSE MODES_SHORT_MSG_BITS

\* copy(msg, aux): aux overwrites the first Len(aux) bytes of msg
CopyInto(msg, aux) == aux \o SubSeq(msg, Len(aux) + 1, Len(msg))

RECURSIVE SingleBitScan(_, _, _)
SingleBitScan(msg, bits, j) ==
    IF j >= bits THEN [errorbit |-> -1, msg |-> msg]
    ELSE LET msgBytes == bits \div 8
             aux == FlipBit(SubSeq(msg, 1, msgBytes), j)
         IN  IF TrailingCrc(aux, msgBytes) = modesChecksum(aux, bits)
             THEN [errorbit |-> j, msg |-> CopyInto(msg, aux)]
             ELSE SingleBitScan(msg, bits, j + 1)

\* variant: the position reported counting from 1
fixSingleBitErrorsOneBased(msg, bits) ==
    LET r == SingleBitScan(msg, bits, 0)
    IN  [r EXCEPT !.errorbit = IF @ = -1 THEN -1 ELSE @ + 1]

\* result: the error bit position (-1 if none) and the buffer as left behind
fixSingleBitErrors(msg, bits) == SingleBitScan(msg, bits, 0)

RECURSIVE TwoBitsInner(_, _, _, _)
TwoBitsInner(msg, bits, j, i) ==
    IF i >= bits THEN [errorbit |-> -1, msg |-> msg]
    ELSE LET msgBytes == bits \div 8
             aux == FlipBit(FlipBit(SubSeq(msg, 1, msgBytes), j), i)
         IN  IF TrailingCrc(aux, msgBytes) = modesChecksum(aux, bits)
             THEN [errorbit |-> j + i * 256, msg |-> CopyInto(msg, aux)]
             ELSE TwoBitsInner(msg, bits, j, i + 1)

RECURSIVE TwoBitsScan(_, _, _)
TwoBitsScan(msg, bits, j) ==
    IF j >= bits THEN [errorbit |-> -1, msg |-> msg]
    ELSE LET r == TwoBitsInner(msg, bits, j, j + 1)
         IN  IF r.errorbit # -1 THEN r ELSE TwoBitsScan(msg, bits, j + 1)

\* result: j | (i << 8) (-1 if none) and the buffer as left behind
fixTwoBitsErrors(msg, bits) == TwoBitsScan(msg, bits, 0)

-----------------------------------------------------------------------------
(* ICAO address cache (github.com/patrickmn/go-cache, default expiration   *)
(* MODES_ICAO_CACHE_TTL seconds).  The key fmt.Sprint(addr) is the decimal *)
(* numeral of the address, which is distinct for distinct addresses, so an *)
(* entry is identified by the address.                                     *)

EmptyMap == [a \in {} |-> 0]

\* Cache.SetDefault: the entry expires MODES_ICAO_CACHE_TTL seconds from now
addRecentlySeenICAOAddr(cache, addr, t) ==
    [a \in (DOMAIN cache) \cup {addr} |->
        IF a = addr THEN t + MODES_ICAO_CACHE_TTL * 1000 ELSE cache[a]]

\* variant: an entry is found whatever its expiration
icaoAddressEverSeen(cache, addr, t) == addr \in DOMAIN cache

\* variant: an entry is gone at the instant of its expiration
icaoAddressSeenBeforeExpiry(cache, addr, t) ==
    addr \in DOMAIN cache /\ t < cache[addr]

\* Cache.Get: found unless absent or time.Now() > Expiration
icaoAddressWasRecentlySeen(cache, addr, t) ==
    addr \in DOMAIN cache /\ ~(t > cache[addr])

\* Cache.DeleteExpired, run by the cache's janitor every 10 seconds
DeleteExpired(cache, t) ==
    [a \in {x \in DOMAIN cache : ~(t > cache[x])} |-> cache[a]]

APFormats == {0, 4, 5, 16, 20, 21, 24}

\* variant: the recovered address is accepted without consulting the cache
bruteForceAPAnyAddress(cache, t, msg, msgtype, msgbits) ==
    LET lastbyte == (msgbits \div 8) - 1
        crc == modesChecksum(msg, msgbits)
    IN  [ok  |-> msgtype \in {0, 4, 5, 16, 20, 21, 24},
         aa1 |-> XorByte[msg[lastbyte - 1]][(crc \div 65536) % 256],
         aa2 |-> XorByte[msg[lastbyte]][(crc \div 256) % 256],
         aa3 |-> XorByte[msg[lastbyte + 1]][crc % 256]]

\* result: ok (error == nil) and the recovered address bytes
bruteForceAP(cache, t, msg, msgtype, msgbits) ==
    IF msgtype \in APFormats
    THEN LET lastbyte == (msgbits \div 8) - 1
             crc == modesChecksum(msg, msgbits)
             a3  == XorByte[msg[lastbyte + 1]][crc % 256]
             a2  == XorByte[msg[lastbyte]][(crc \div 256) % 256]
             a1  == XorByte[msg[lastbyte - 1]][(crc \div 65536) % 256]
             addr == a3 + a2 * 256 + a1 * 65536
         IN  IF icaoAddressWasRecentlySeen(cache, addr, t)
             THEN [ok |-> TRUE, aa1 |-> a1, aa2 |-> a2, aa3 |-> a3]
             ELSE [ok |-> FALSE, aa1 |-> 0, aa2 |-> 0, aa3 |-> 0]
    ELSE [ok |-> FALSE, aa1 |-> 0, aa2 |-> 0, aa3 |-> 0]

-----------------------------------------------------------------------------
(* Field decoders.  msg[k] of the source is msg[k + 1] here.               *)

\* n is a byte in the source: every shift is taken modulo 256
decodeAC13Field(msg, unit) ==
    LET m_bit == Bit(msg[4], 6)
        q_bit == Bit(msg[4], 4)
        n == (((msg[3] % 32) * 64) % 256)       \* (msg[2] & 31) << 6
             + Bit(msg[4], 7) * 32              \* (msg[3] & 0x80) >> 2
             + Bit(msg[4], 5) * 16              \* (msg[3] & 0x20) >> 1
             + (msg[4] % 16)                    \* msg[3] & 15
    IN  IF m_bit = 0
        THEN [altitude |-> IF q_bit # 0 THEN n * 25 - 1000 ELSE 0,
              unit |-> MODES_UNIT_FEET]
        ELSE [altitude |-> 0, unit |-> MODES_UNIT_METERS]

\* n is a byte in the source: (msg[5] >> 1) << 4 is taken modulo 256
decodeAC12Field(msg, unit) ==
    LET q_bit == Bit(msg[6], 0)
        n == (((msg[6] \div 2) * 16) % 256) + (msg[7] \div 16)
    IN  IF q_bit # 0
        THEN [altitude |-> n * 25 - 1000, unit |-> MODES_UNIT_FEET]
        ELSE [altitude |-> 0, unit |-> unit]

\* "?ABCDEFGHIJKLMNOPQRSTUVWXYZ????? ???????????????0123456789??????"
\* as code points
ais_charset == <<
    63, 65, 66, 67, 68, 69, 70, 71, 72, 73, 74, 75, 76, 77, 78, 79,
    80, 81, 82, 83, 84, 85, 86, 87, 88, 89, 90, 63, 63, 63, 63, 63,
    32, 63, 63, 63, 63, 63, 63, 63, 63, 63, 63, 63, 63, 63, 63, 63,
    48, 49, 50, 51, 52, 53, 54, 55, 56, 57, 63, 63, 63, 63, 63, 63 >>

\* mm.flight[0..8]: eight characters and the terminating 0
DecodeFlight(msg) == <<
    ais_charset[(msg[6] \div 4) + 1],
    ais_charset[((msg[6] % 4) * 16 + (msg[7] \div 16)) + 1],
    ais_charset[((msg[7] % 16) * 4 + (msg[8] \div 64)) + 1],
    ais_charset[(msg[8] % 64) + 1],
    ais_charset[(msg[9] \div 4) + 1],
    ais_charset[((msg[9] % 4) * 16 + (msg[10] \div 16)) + 1],
    ais_charset[((msg[10] % 16) * 4 + (msg[11] \div 64)) + 1],
    ais_charset[(msg[11] % 64) + 1],
    0 >>

\* the squawk: four octal digits written as a decimal number
DecodeIdentity(msg) ==
    LET a == Bit(msg[4], 7) * 4 + Bit(msg[3], 1) * 2 + Bit(msg[3], 3)
        b == Bit(msg[4], 1) * 4 + Bit(msg[4], 3) * 2 + Bit(msg[4], 5)
        c == Bit(msg[3], 0) * 4 + Bit(msg[3], 2) * 2 + Bit(msg[3], 4)
        d == Bit(msg[4], 0) * 4 + Bit(msg[4], 2) * 2 + Bit(msg[4], 4)
    IN  a * 1000 + b * 100 + c * 10 + d

\* int(math.Sqrt(float64(n))) for 0 <= n < 2^21
IntSqrt(n) == CHOOSE r \in 0..1448 : r * r <= n /\ n < (r + 1) * (r + 1)

\* ModeSMessage{}: every field zero
ZeroFlight == << 0, 0, 0, 0, 0, 0, 0, 0, 0 >>

-----------------------------------------------------------------------------
(* Decoder.DecodeModesMessage *)

NoRepair(msg) == [errorbit |-> -1, msg |-> msg]

\* lines 512-525: the parity check and the repair attempts.  The result
\* carries the buffer, errorbit, crc and crcok as they stand after line 525
\* and which of the two repair procedures were called.
CheckAndRepair(fix, aggr, msg, msgtype, msgbits) ==
    LET crc0   == TrailingCrc(msg, msgbits \div 8)
        crc2   == modesChecksum(msg, msgbits)
        crcok0 == (crc0 = crc2)
        try    == ~crcok0 /\ fix /\ (msgtype = 11 \/ msgtype = 17)
        one    == IF try THEN fixSingleBitErrors(msg, msgbits) ELSE NoRepair(msg)
        \* "else if mm.errorbit = fixTwoBitsErrors(msg, mm.msgbits); ...":
        \* the init statement runs whenever the single-bit repair failed
        try2   == try /\ one.errorbit = -1
        two    == IF try2 THEN fixTwoBitsErrors(one.msg, msgbits) ELSE one
        ok1    == try /\ one.errorbit # -1
        ok2    == try2 /\ aggr /\ msgtype = 17 /\ two.errorbit # -1
    IN  [msg      |-> two.msg,
         errorbit |-> two.errorbit,
         crc      |-> IF ok1 \/ ok2 THEN modesChecksum(two.msg, msgbits) ELSE crc0,
         crcok    |-> crcok0 \/ ok1 \/ ok2,
         single   |-> try,
         two      |-> try2]

\* variant: repaired frames insert their address too
InsertsICAOAlsoRepaired(msgtype, crcok, errorbit) ==
    (msgtype = 11 \/ msgtype = 17) /\ crcok

\* lines 580 and 594: does this record add its address to the cache?
InsertsICAO(msgtype, crcok, errorbit) ==
    (msgtype = 11 \/ msgtype = 17) /\ crcok /\ errorbit = -1

\* lines 527-679: the fields of the record, read from the buffer as the
\* repair stage left it (rep) and the outcome of the address recovery (bf).
\* heading and heading_is_valid (lines 648-656) are not part of the record
\* modelled here.
DecodeFields(rep, bf, msgtype, msgbits) ==
    LET m       == rep.msg
        metype  == m[5] \div 8
        mesub   == m[5] % 8
        isAP    == msgtype # 11 /\ msgtype # 17
        crcok   == IF isAP THEN bf.ok ELSE rep.crcok
        found   == isAP /\ bf.ok
        ac13    == msgtype \in {0, 4, 16, 20}
        es      == msgtype = 17
        ident   == es /\ metype >= 1 /\ metype <= 4
        pos     == es /\ metype >= 9 /\ metype <= 18
        vel     == es /\ metype = 19 /\ (mesub = 1 \/ mesub = 2)
        alt     == IF ac13 THEN decodeAC13Field(m, 0)
                   ELSE IF pos THEN decodeAC12Field(m, 0)
                   ELSE [altitude |-> 0, unit |-> 0]
        ew_velocity == (m[6] % 4) * 256 + m[7]
        ns_velocity == (m[8] % 128) * 8 + (m[9] \div 32)
    IN  [mm |->
           [msg           |-> m,
            msgbits       |-> msgbits,
            msgtype       |-> msgtype,
            crcok         |-> crcok,
            crc           |-> rep.crc,
            errorbit      |-> rep.errorbit,
            aa1           |-> IF found THEN bf.aa1 ELSE m[2],
            aa2           |-> IF found THEN bf.aa2 ELSE m[3],
            aa3           |-> IF found THEN bf.aa3 ELSE m[4],
            ca            |-> m[1] % 8,
            metype        |-> metype,
            mesub         |-> mesub,
            fs            |-> m[1] % 8,
            dr            |-> (m[2] \div 8) % 32,
            um            |-> (m[2] % 8) * 8 + (m[3] \div 32),
            identity      |-> DecodeIdentity(m),
            altitude      |-> alt.altitude,
            unit          |-> alt.unit,
            aircraft_type |-> IF ident THEN metype - 1 ELSE 0,
            flight        |-> IF ident THEN DecodeFlight(m) ELSE ZeroFlight,
            fflag         |-> IF pos THEN Bit(m[7], 2) * 4 ELSE 0,
            tflag         |-> IF pos THEN Bit(m[7], 3) * 8 ELSE 0,
            raw_latitude  |-> IF pos THEN (m[7] % 4) * 32768 + m[8] * 128 + (m[9] \div 2)
                              ELSE 0,
            raw_longitude |-> IF pos THEN (m[9] % 2) * 65536 + m[10] * 256 + m[11]
                              ELSE 0,
            ew_dir        |-> IF vel THEN Bit(m[6], 2) ELSE 0,
            ew_velocity   |-> IF vel THEN ew_velocity ELSE 0,
            ns_dir        |-> IF vel THEN Bit(m[8], 7) ELSE 0,
            ns_velocity   |-> IF vel THEN ns_velocity ELSE 0,
            vert_rate_source |-> IF vel THEN Bit(m[9], 4) ELSE 0,
            vert_rate_sign   |-> IF vel THEN Bit(m[9], 3) ELSE 0,
            vert_rate     |-> IF vel THEN (m[9] % 8) * 64 + (m[10] \div 4) ELSE 0,
            velocity      |-> IF vel
                              THEN IntSqrt(ns_velocity * ns_velocity
                                           + ew_velocity * ew_velocity)
                              ELSE 0],
         ran |-> [single |-> rep.single, two |-> rep.two, cpr |-> FALSE]]

\* lines 580-598: formats other than 11 and 17 go through bruteForceAP
RecoverAddress(cache, t, rep, msgtype, msgbits) ==
    IF msgtype # 11 /\ msgtype # 17
    THEN bruteForceAP(cache, t, rep.msg, msgtype, msgbits)
    ELSE [ok |-> FALSE, aa1 |-> 0, aa2 |-> 0, aa3 |-> 0]

DecodeRepaired(cache, t, rep, msgtype, msgbits) ==
    DecodeFields(rep, RecoverAddress(cache, t, rep, msgtype, msgbits), msgtype, msgbits)

DecodeTyped(fix, aggr, cache, t, msg, msgtype, msgbits) ==
    DecodeRepaired(cache, t, CheckAndRepair(fix, aggr, msg, msgtype, msgbits),
                   msgtype, msgbits)

\* The record DecodeModesMessage leaves in a fresh ModeSMessage{} for the
\* frame msg, with the cache as it is at instant t.  `ran` tells which
\* repair procedures were called.
DecodeRecord(fix, aggr, cache, t, msg) ==
    DecodeTyped(fix, aggr, cache, t, msg, msg[1] \div 8,
                modesMessageLenByType(msg[1] \div 8))

\* (mm.aa1 << 16) | (mm.aa2 << 8) | mm.aa3
AddrOf(m) == m.aa1 * 65536 + m.aa2 * 256 + m.aa3

-----------------------------------------------------------------------------
(* Aircraft and CPR position decoding.                                     *)
(*                                                                         *)
(* An angle of the source (a float64 number of degrees) is kept exactly,   *)
(* as the pair [k, n] that stands for 360 * k / (n * 131072) degrees; the  *)
(* source's float64 arithmetic is read as arithmetic on reals.             *)

CPR_SCALE == 131072

Angle(k, n) == [k |-> k, n |-> n]
ZeroAngle == Angle(0, 1)

Abs(x) == IF x < 0 THEN -x ELSE x

\* a % b of Go: the remainder has the sign of a
GoRem(a, b) == IF a >= 0 THEN a % b ELSE -((-a) % b)

\* variant: the remainder of Go as it is
cprModFunctionTruncated(a, b) == GoRem(a, b)

cprModFunction(a, b) ==
    LET res == GoRem(a, b) IN IF res < 0 THEN res + b ELSE res

\* the break points of cprNLFunction, each as <<whole degrees, 10^-8 degrees>>
NLBreaks == <<
    <<10, 47047130>>, <<14, 82817437>>, <<18, 18626357>>, <<21, 2939493>>,
    <<23, 54504487>>, <<25, 82924707>>, <<27, 93898710>>, <<29, 91135686>>,
    <<31, 77209708>>, <<33, 53993436>>, <<35, 22899598>>, <<36, 85025108>>,
    <<38, 41241892>>, <<39, 92256684>>, <<41, 38651832>>, <<42, 80914012>>,
    <<44, 19454951>>, <<45, 54626723>>, <<46, 86733252>>, <<48, 16039128>>,
    <<49, 42776439>>, <<50, 67150166>>, <<51, 89342469>>, <<53, 9516153>>,
    <<54, 27817472>>, <<55, 44378444>>, <<56, 59318756>>, <<57, 72747354>>,
    <<58, 84763776>>, <<59, 95459277>>, <<61, 4917774>>, <<62, 13216659>>,
    <<63, 20427479>>, <<64, 26616523>>, <<65, 31845310>>, <<66, 36171008>>,
    <<67, 39646774>>, <<68, 42322022>>, <<69, 44242631>>, <<70, 45451075>>,
    <<71, 45986473>>, <<72, 45884545>>, <<73, 45177442>>, <<74, 43893416>>,
    <<75, 42056257>>, <<76, 39684391>>, <<77, 36789461>>, <<78, 33374083>>,
    <<79, 29428225>>, <<80, 24923213>>, <<81, 19801349>>, <<82, 13956981>>,
    <<83, 7199445>>, <<83, 99173563>>, <<84, 89166191>>, <<85, 75541621>>,
    <<86, 53536998>>, <<87, 0>> >>

\* |angle| in degrees, rounded down to 10^-8: <<whole degrees, 10^-8 degrees>>,
\* by long division two decimal digits at a time
AbsDegrees(a) ==
    LET d  == a.n * CPR_SCALE
        x  == 360 * Abs(a.k)
        r0 == x % d
        r1 == (r0 * 100) % d
        r2 == (r1 * 100) % d
        r3 == (r2 * 100) % d
    IN  << x \div d,
           ((r0 * 100) \div d) * 1000000 + ((r1 * 100) \div d) * 10000
             + ((r2 * 100) \div d) * 100 + ((r3 * 100) \div d) >>

\* lat < break point
BelowBreak(deg, brk) ==
    deg[1] < brk[1] \/ (deg[1] = brk[1] /\ deg[2] < brk[2])

\* the switch of cprNLFunction: the first break point above |lat| decides
cprNLFunction(lat) ==
    LET deg  == AbsDegrees(lat)
        hits == {i \in 1..Len(NLBreaks) : BelowBreak(deg, NLBreaks[i])}
    IN  IF hits = {} THEN 1
        ELSE 60 - (CHOOSE i \in hits : \A h \in hits : i <= h)

cprNFunction(lat, isodd) ==
    LET nl == cprNLFunction(lat) - isodd IN IF nl < 1 THEN 1 ELSE nl

\* if r >= 270 { r -= 360 }
Wrap270(a) ==
    IF 4 * a.k >= 3 * a.n * CPR_SCALE THEN Angle(a.k - a.n * CPR_SCALE, a.n) ELSE a

\* if a.Longitude > 180 { a.Longitude -= 360 }
Wrap180(a) ==
    IF 2 * a.k > a.n * CPR_SCALE THEN Angle(a.k - a.n * CPR_SCALE, a.n) ELSE a

\* math.Floor(x / 131072 + 0.5) for an integer x
RoundScale(x) == (2 * x + CPR_SCALE) \div (2 * CPR_SCALE)

\* line 161: the latitude index j
CprLatIndex(a) == RoundScale(59 * a.EvenCprLat - 60 * a.OddCprLat)

\* lines 162 and 165-167: rlat0, wrapped into [-90, 270)
CprRlat0(a) ==
    Wrap270(Angle(cprModFunction(CprLatIndex(a), 60) * CPR_SCALE + a.EvenCprLat, 60))

\* lines 163 and 168-170: rlat1
CprRlat1(a) ==
    Wrap270(Angle(cprModFunction(CprLatIndex(a), 59) * CPR_SCALE + a.OddCprLat, 59))

\* variant: no zone check
SameZoneAlways(rlat0, rlat1) == TRUE

\* line 173, negated: both latitudes are in the same latitude zone
SameZone(rlat0, rlat1) == cprNLFunction(rlat0) = cprNLFunction(rlat1)

\* lines 175-194, with the two latitudes already computed
ResolvePosition(a, rlat0, rlat1) ==
    LET lon0 == a.EvenCprLon
        lon1 == a.OddCprLon
    IN  IF a.EvenCprTime > a.OddCprTime
        THEN LET ni == cprNFunction(rlat0, 0)
                 nl == cprNLFunction(rlat0)
                 m  == RoundScale(lon0 * (nl - 1) - lon1 * nl)
             IN  [a EXCEPT
                    !.Longitude = Wrap180(Angle(cprModFunction(m, ni) * CPR_SCALE + lon0, ni)),
                    !.Latitude = rlat0]
        ELSE LET ni == cprNFunction(rlat1, 1)
                 nl == cprNLFunction(rlat1)
                 m  == RoundScale(lon0 * (nl - 1) - lon1 * nl)
             IN  [a EXCEPT
                    !.Longitude = Wrap180(Angle(cprModFunction(m, ni) * CPR_SCALE + lon1, ni)),
                    !.Latitude = rlat1]

CprZoned(a, rlat0, rlat1) ==
    IF ~SameZone(rlat0, rlat1) THEN a ELSE ResolvePosition(a, rlat0, rlat1)

decodeCPR(a) == CprZoned(a, CprRlat0(a), CprRlat1(a))

\* fmt.Sprintf("%06X", addr): six hexadecimal digits, most significant first
HexAddr(addr) == [i \in 1..6 |-> (addr \div (16 ^ (6 - i))) % 16]

\* mstime(): wall clock in milliseconds
mstime(t) == t

NewAircraft(addr, t) ==
    [Addr |-> addr, HexAddr |-> HexAddr(addr), Flight |-> << >>,
     Altitude |-> 0, Speed |-> 0, Seen |-> t, Messages |-> 0,
     OddCprLat |-> 0, OddCprLon |-> 0, EvenCprLat |-> 0, EvenCprLon |-> 0,
     Latitude |-> ZeroAngle, Longitude |-> ZeroAngle,
     OddCprTime |-> 0, EvenCprTime |-> 0]

\* variant: no age test on the pair
CprPairAlways(a) == TRUE

\* line 127: math.Abs(float64(a.EvenCprTime-a.OddCprTime)) <= 10000
CprPairFresh(a) == Abs(a.EvenCprTime - a.OddCprTime) <= CPR_MAX_AGE_MS

\* lines 109-136 of UpdateData: the aircraft after the message m is applied
\* at instant t, and whether decodeCPR was called
ApplyMessage(a, m, t) ==
    IF m.msgtype = 0 \/ m.msgtype = 4 \/ m.msgtype = 20
    THEN [ac |-> [a EXCEPT !.Altitude = m.altitude], cpr |-> FALSE]
    ELSE IF m.msgtype # 17 THEN [ac |-> a, cpr |-> FALSE]
    ELSE IF m.metype >= 1 /\ m.metype <= 4
    THEN [ac |-> [a EXCEPT !.Flight = m.flight], cpr |-> FALSE]
    ELSE IF m.metype >= 9 /\ m.metype <= 18
    THEN LET a1 == IF m.fflag # 0
                   THEN [a EXCEPT !.Altitude = m.altitude,
                                  !.OddCprLat = m.raw_latitude,
                                  !.OddCprLon = m.raw_longitude,
                                  !.OddCprTime = mstime(t)]
                   ELSE [a EXCEPT !.Altitude = m.altitude,
                                  !.EvenCprLat = m.raw_latitude,
                                  !.EvenCprLon = m.raw_longitude,
                                  !.EvenCprTime = mstime(t)]
         IN  IF CprPairFresh(a1)
             THEN [ac |-> decodeCPR(a1), cpr |-> TRUE]
             ELSE [ac |-> a1, cpr |-> FALSE]
    ELSE IF m.metype = 19 /\ (m.mesub = 1 \/ m.mesub = 2)
    THEN [ac |-> [a EXCEPT !.Speed = m.velocity], cpr |-> FALSE]
    ELSE [ac |-> a, cpr |-> FALSE]

\* variant: no aircraft is ever stale
IsStaleNever(a, t) == FALSE

\* line 360: int(dur.Seconds()) > sky.aircraft_ttl
IsStale(a, t) == ((t - a.Seen) \div 1000) > MODES_AIRCRAFT_TTL

-----------------------------------------------------------------------------
(* Bounds and inputs *)

\* frames the receive goroutine hands to the handler in one behaviour
MaxFrames == 2
\* wall clock (ms) when the program starts: any instant later than
\* CPR_MAX_AGE_MS after the epoch
StartTime == 20000

\* the instants (ms after the start) at which the clock is observed: the
\* start, the two sides of the 10 s CPR window, and the two sides of the
\* 60 s lifetimes with the instant half a second past them
Instants == {0, 10000, 10500, 60000, 60500, 61000}

\* frames seen on the air (DF 17): identification, even and odd airborne
\* position, velocity
FrameIdent == << 141, 72, 64, 214, 32, 44, 195, 113, 195, 44, 224, 87, 96, 152 >>
FrameEven  == << 141, 64, 98, 29, 88, 195, 130, 214, 144, 200, 172, 40, 99, 167 >>
FrameOdd   == << 141, 64, 98, 29, 88, 195, 134, 67, 92, 196, 18, 105, 42, 214 >>
FrameVel   == << 141, 72, 80, 32, 153, 68, 9, 148, 8, 56, 23, 91, 40, 79 >>

\* the addresses in bytes 1-3 of these frames: 0x4840D6 and 0x40621D
AddrIdent == FrameIdent[2] * 65536 + FrameIdent[3] * 256 + FrameIdent[4]
AddrPos   == FrameEven[2] * 65536 + FrameEven[3] * 256 + FrameEven[4]

\* the frame with its downlink format replaced by df
WithDF(f, df) == [f EXCEPT ![1] = df * 8 + (@ % 8)]

\* the frame with the parity of its first `bits` bits written into the last
\* three bytes of those bits
Seal(f, bits) ==
    LET n   == bits \div 8
        crc == modesChecksum(f, bits)
    IN  [f EXCEPT ![n - 2] = crc \div 65536,
                  ![n - 1] = (crc \div 256) % 256,
                  ![n]     = crc % 256]

\* a sealed frame whose parity field is overlaid with the address
\* (Address/Parity)
OverlayAddr(f, bits, addr) ==
    LET n == bits \div 8
    IN  [f EXCEPT ![n - 2] = XorByte[@][addr \div 65536],
                  ![n - 1] = XorByte[@][(addr \div 256) % 256],
                  ![n]     = XorByte[@][addr % 256]]

FrameBits(f) == modesMessageLenByType(f[1] \div 8)

\* a clean frame of format df as its transponder sends it
CleanFrame(f, df) == Seal(WithDF(f, df), modesMessageLenByType(df))

\* a surveillance reply of format df from the aircraft addr
APFrame(f, df, addr) ==
    OverlayAddr(CleanFrame(f, df), modesMessageLenByType(df), addr)

-----------------------------------------------------------------------------
(* State machine *)

\* ModeSMessage{}
ZeroMessage ==
    [msg |-> << >>, msgbits |-> 0, msgtype |-> 0, crcok |-> FALSE, crc |-> 0,
     errorbit |-> 0, aa1 |-> 0, aa2 |-> 0, aa3 |-> 0, ca |-> 0, metype |-> 0,
     mesub |-> 0, fs |-> 0, dr |-> 0, um |-> 0, identity |-> 0, altitude |-> 0,
     unit |-> 0, aircraft_type |-> 0, flight |-> ZeroFlight, fflag |-> 0,
     tflag |-> 0, raw_latitude |-> 0, raw_longitude |-> 0, ew_dir |-> 0,
     ew_velocity |-> 0, ns_dir |-> 0, ns_velocity |-> 0, vert_rate_source |-> 0,
     vert_rate_sign |-> 0, vert_rate |-> 0, velocity |-> 0]

\* the *Aircraft UpdateData returns: nil, or {addr} for the entry of addr
NilAircraft == {}

NothingRan == [single |-> FALSE, two |-> FALSE, cpr |-> FALSE]

\* CreateContext, Decoder.Init and NewSky with the configuration fix, aggr
\* and the cache holding the addresses seeded
\* the program after construction, all but the arguments of a function
\* called on its own
InitState(fix, aggr, seeded) ==
    /\ now = StartTime
    /\ fix_errors = fix
    /\ aggressive = aggr
    /\ icao_cache = [a \in seeded |-> StartTime + MODES_ICAO_CACHE_TTL * 1000]
    /\ inserted_at = [a \in seeded |-> StartTime]
    /\ air = [sent |-> << >>, noise |-> << >>]
    /\ rcv = << >>
    /\ mm = ZeroMessage
    /\ pc = "idle"
    /\ aircrafts = EmptyMap
    /\ ret = NilAircraft
    /\ op = "Init"
    /\ ran = NothingRan
    /\ nframes = 0
    /\ mux = "free"
    /\ tpc = "idle"
    /\ remKeys = {}
    /\ sweep_now = StartTime
    /\ last_update = EmptyMap
    /\ snap = EmptyMap
    /\ snap_expect = EmptyMap
    /\ nsnaps = 0
    /\ line = << >>
    /\ parsed = {}
    /\ nlines = 0

InitWith(fix, aggr, seeded) ==
    /\ InitState(fix, aggr, seeded)
    /\ args = << >>
    /\ result = << >>

\* DecodeModesMessage(&msg, f) on the decoder's state
DecodeModesMessageBody(f) ==
    /\ pc = "idle"
    /\ \E d \in { DecodeRecord(fix_errors, aggressive, icao_cache, now, f) } :
           /\ mm' = d.mm
           /\ ran' = d.ran
           /\ IF InsertsICAO(d.mm.msgtype, d.mm.crcok, d.mm.errorbit)
              THEN /\ icao_cache' = addRecentlySeenICAOAddr(icao_cache, AddrOf(d.mm), now)
                   /\ inserted_at' = [a \in (DOMAIN inserted_at) \cup {AddrOf(d.mm)} |->
                                        IF a = AddrOf(d.mm) THEN now ELSE inserted_at[a]]
              ELSE UNCHANGED << icao_cache, inserted_at >>
    /\ rcv' = f
    /\ pc' = "decoded"
    /\ op' = "DecodeModesMessage"
    /\ nframes' = nframes + 1
    /\ UNCHANGED << now, fix_errors, aggressive, aircrafts, ret >>

\* the handler's first statement on the frame f: DecodeModesMessage(&msg, f)
DecodeModesMessage(f) ==
    /\ DecodeModesMessageBody(f)
    /\ UNCHANGED lockvars
    /\ UNCHANGED snapvars
    /\ UNCHANGED linevars
    /\ UNCHANGED fnvars

\* variant: the counter is left alone
TouchNoCount(a, t) == [a EXCEPT !.Seen = t]

\* lines 105-106 of UpdateData: a.Seen = time.Now(); a.Messages++
Touch(a, t) == [a EXCEPT !.Seen = t, !.Messages = @ + 1]

\* variant: no crc check
RejectsNothing(m) == FALSE

\* lines 91-93 of UpdateData: "if !mm.crcok { return nil }"
Rejects(m) == ~m.crcok

\* lines 91-138: the body of UpdateData, run with sky.mux held
UpdateDataBody ==
    /\ pc = "decoded"
    /\ IF Rejects(mm)
       THEN /\ ret' = NilAircraft
            /\ ran' = [ran EXCEPT !.cpr = FALSE]
            /\ UNCHANGED aircrafts
       ELSE LET addr == AddrOf(mm)
                a0   == IF addr \in DOMAIN aircrafts THEN aircrafts[addr]
                        ELSE NewAircraft(addr, now)
                a1   == Touch(a0, now)
                r    == ApplyMessage(a1, mm, now)
            IN  /\ aircrafts' = [x \in (DOMAIN aircrafts) \cup {addr} |->
                                   IF x = addr THEN r.ac ELSE aircrafts[x]]
                /\ ret' = {addr}
                /\ ran' = [ran EXCEPT !.cpr = r.cpr]
    /\ pc' = "idle"
    /\ op' = "UpdateData"
    /\ UNCHANGED << now, fix_errors, aggressive, icao_cache, air, rcv, mm,
                    inserted_at, nframes >>

\* the handler's second statement: sky.UpdateData(&msg)
UpdateData ==
    /\ UpdateDataBody
    /\ UNCHANGED lockvars /\ UNCHANGED snapvars /\ UNCHANGED linevars
    /\ UNCHANGED fnvars

\* the ticker goroutine: sky.RemoveStaleAircrafts()
RemoveStaleAircrafts ==
    /\ aircrafts' = [x \in {k \in DOMAIN aircrafts : ~IsStale(aircrafts[k], now)} |->
                       aircrafts[x]]
    /\ op' = "RemoveStaleAircrafts"
    /\ UNCHANGED << now, fix_errors, aggressive, icao_cache, air, rcv, mm, pc,
                    ret, ran, inserted_at, nframes >>
    /\ UNCHANGED lockvars
    /\ UNCHANGED snapvars
    /\ UNCHANGED linevars
    /\ UNCHANGED fnvars

\* the janitor of the ICAO cache
CacheJanitor ==
    /\ \E a \in DOMAIN icao_cache : now > icao_cache[a]
    /\ icao_cache' = DeleteExpired(icao_cache, now)
    /\ op' = "DeleteExpired"
    /\ UNCHANGED << now, fix_errors, aggressive, air, rcv, mm, pc, aircrafts,
                    ret, ran, inserted_at, nframes >>
    /\ UNCHANGED lockvars
    /\ UNCHANGED snapvars
    /\ UNCHANGED linevars
    /\ UNCHANGED fnvars

\* time passes: the clock reads t ms after the start
Advance(t) ==
    /\ StartTime + t > now
    /\ now' = StartTime + t
    /\ op' = "Advance"
    /\ UNCHANGED << fix_errors, aggressive, icao_cache, air, rcv, mm, pc,
                    aircrafts, ret, ran, inserted_at, nframes >>
    /\ UNCHANGED lockvars
    /\ UNCHANGED snapvars
    /\ UNCHANGED linevars
    /\ UNCHANGED fnvars

\* the frame as received: the frame sent with the bits of noise flipped
RECURSIVE Corrupt(_, _)
Corrupt(f, noise) ==
    IF noise = << >> THEN f ELSE Corrupt(FlipBit(f, Head(noise)), Tail(noise))

Sent(f) == [sent |-> f, noise |-> << >>]
Noisy(f, noise) == [sent |-> f, noise |-> noise]

\* the receive goroutine reads a line and calls the handler with its frame
Receive(x) ==
    /\ air' = x
    /\ DecodeModesMessage(Corrupt(x.sent, x.noise))

-----------------------------------------------------------------------------
(* Spec: the program as main() runs it.  One goroutine receives frames and *)
(* runs the handler (DecodeModesMessage, then UpdateData), the ticker      *)
(* goroutine prunes the sky, the cache's janitor purges the cache, and     *)
(* time passes.                                                            *)

SkyInputs ==
    { Sent(FrameIdent), Sent(FrameEven), Sent(FrameOdd),
      Noisy(FrameOdd, << 30 >>),
      Sent(APFrame(FrameEven, 4, AddrPos)),
      Sent(CleanFrame(FrameEven, 11)),
      Sent(CleanFrame(FrameIdent, 18)) }

\* Decoder.Init: fix_errors = true, aggressive = false, an empty cache
Init == InitWith(TRUE, FALSE, {})

ReceiveFrame == nframes < MaxFrames /\ \E x \in SkyInputs : Receive(x)

Tick == \E t \in Instants : Advance(t)

Next ==
    \/ ReceiveFrame
    \/ UpdateData
    \/ RemoveStaleAircrafts
    \/ CacheJanitor
    \/ Tick

Spec == Init /\ [][Next]_vars

-----------------------------------------------------------------------------
(* SpecDecode: DecodeModesMessage as a function of the frame, the          *)
(* configuration and the cache.  The decoder starts in any configuration,  *)
(* with the cache empty or holding AddrPos, fresh or expired, and decodes  *)
(* one frame.                                                              *)

AllDF == 0..31
FlipPositions17 == 0..(MODES_LONG_MSG_BITS - 1)
FlipPositions11 == 0..(MODES_SHORT_MSG_BITS - 1)
DFBits == 0..4

\* frames whose last three bytes are the parity of all 112 bits, one for
\* every downlink format
Clean112(df) == Seal(WithDF(FrameIdent, df), MODES_LONG_MSG_BITS)
\* frames whose bytes 4-6 are the parity of the first 56 bits
Clean56(df) == Seal(WithDF(FrameIdent, df), MODES_SHORT_MSG_BITS)

\* values of the 11-bit altitude code N, below and above one byte
AC13Samples == {0, 141, 1560, 2047}

\* a reply of format df from AddrPos whose 13-bit AC field carries N = n
\* with the M bit m and the Q bit q (N5 at bit 7, M at bit 6, N4 at bit 5,
\* Q at bit 4 of byte 3)
AltReply(df, n, m, q) ==
    APFrame([FrameEven EXCEPT ![3] = n \div 64,
                              ![4] = ((n \div 32) % 2) * 128 + m * 64
                                     + ((n \div 16) % 2) * 32 + q * 16 + (n % 16)],
            df, AddrPos)

\* east-west and north-south velocities whose speed is whole, has a fraction
\* below one half and has a fraction above one half
VelocitySamples == { << 0, 0 >>, << 3, 4 >>, << 1, 1 >>, << 2, 2 >>, << 1023, 1023 >> }

\* FrameVel (ME type 19, subtype 1) with the 10-bit velocities ew and ns
VelFrame(ew, ns) ==
    Seal([FrameVel EXCEPT ![6] = (@ - (@ % 4)) + (ew \div 256),
                          ![7] = ew % 256,
                          ![8] = (@ - (@ % 128)) + (ns \div 8),
                          ![9] = (ns % 8) * 32 + (@ % 32)],
         MODES_LONG_MSG_BITS)

DecodeInputs ==
    { Sent(FrameIdent), Sent(FrameEven), Sent(FrameOdd), Sent(FrameVel) }
    \cup { Sent(VelFrame(v[1], v[2])) : v \in VelocitySamples }
    \cup { Sent(AltReply(df, n, mq[1], mq[2])) :
             df \in {0, 4, 16, 20}, n \in AC13Samples,
             mq \in { << 0, 1 >>, << 0, 0 >>, << 1, 1 >> } }
    \cup { Sent(Clean112(df)) : df \in AllDF }
    \cup { Sent(Clean56(df)) : df \in {11, 18, 27} }
    \cup { Sent(APFrame(FrameEven, df, a)) : df \in APFormats, a \in {AddrPos, AddrIdent} }
    \* one bit flipped, at every position of the frame
    \cup { Noisy(FrameIdent, << j >>) : j \in FlipPositions17 }
    \cup { Noisy(Clean56(11), << j >>) : j \in FlipPositions11 }
    \* one bit of the format field flipped in frames of neighbouring formats
    \cup { Noisy(Clean112(df), << j >>) : df \in {1, 16, 19, 21, 25}, j \in DFBits }
    \cup { Noisy(Clean56(df), << j >>) : df \in {3, 9, 10, 15, 27}, j \in DFBits }
    \* two and three bits flipped
    \cup { Noisy(FrameIdent, n) : n \in { << 5, 6 >>, << 10, 100 >>, << 6, 40, 90 >> } }
    \cup { Noisy(Clean56(11), n) : n \in { << 5, 6 >>, << 20, 50 >>, << 5, 20, 50 >> } }

InitDecode ==
    \E fix \in BOOLEAN, aggr \in BOOLEAN, seeded \in { {}, {AddrPos} } :
        InitWith(fix, aggr, seeded)

DecodeOne == nframes = 0 /\ \E x \in DecodeInputs : Receive(x)

\* the seeded entry outlives its TTL before the frame arrives
Wait == nframes = 0 /\ now = StartTime /\ icao_cache # EmptyMap /\ Advance(60500)

NextDecode == DecodeOne \/ Wait

SpecDecode == InitDecode /\ [][NextDecode]_vars

-----------------------------------------------------------------------------
(* SpecMutex: the receive goroutine and the ticker goroutine around        *)
(* sky.mux.  UpdateData locks, runs its body and unlocks (deferred) in one *)
(* step; RemoveStaleAircrafts locks and scans in one step and deletes and  *)
(* unlocks in the next, so that an UpdateData between the two would show.  *)

\* variant: Lock() that never blocks
LockableAlways(m) == TRUE

\* sky.mux.Lock() returns only when the mutex is free
Lockable(m) == m = "free"

MutexInputs == { Sent(FrameEven), Sent(FrameIdent), Sent(CleanFrame(FrameIdent, 18)) }

MutexReceive == nframes < MaxFrames /\ \E x \in MutexInputs : Receive(x)

\* UpdateData, lines 87-139: Lock, body, deferred Unlock
LockedUpdateData ==
    /\ Lockable(mux)
    /\ UpdateDataBody
    /\ last_update' =
          IF Rejects(mm) THEN last_update
          ELSE [a \in (DOMAIN last_update) \cup {AddrOf(mm)} |->
                  IF a = AddrOf(mm) THEN now ELSE last_update[a]]
    /\ UNCHANGED << mux, tpc, remKeys, sweep_now >>
    /\ UNCHANGED snapvars
    /\ UNCHANGED linevars
    /\ UNCHANGED fnvars

\* RemoveStaleAircrafts, lines 351-363: Lock, now := time.Now(), the scan
SweepScan ==
    /\ tpc = "idle"
    /\ Lockable(mux)
    /\ mux' = "ticker"
    /\ tpc' = "scanned"
    /\ sweep_now' = now
    /\ remKeys' = {k \in DOMAIN aircrafts : IsStale(aircrafts[k], now)}
    /\ op' = "SweepScan"
    /\ UNCHANGED << now, fix_errors, aggressive, icao_cache, air, rcv, mm, pc,
                    aircrafts, ret, ran, inserted_at, nframes, last_update >>
    /\ UNCHANGED snapvars
    /\ UNCHANGED linevars
    /\ UNCHANGED fnvars

\* RemoveStaleAircrafts, lines 365-367: the deletions, then the deferred Unlock
SweepDelete ==
    /\ tpc = "scanned"
    /\ aircrafts' = [x \in (DOMAIN aircrafts) \ remKeys |-> aircrafts[x]]
    /\ mux' = "free"
    /\ tpc' = "idle"
    /\ remKeys' = {}
    /\ op' = "RemoveStaleAircrafts"
    /\ UNCHANGED << now, fix_errors, aggressive, icao_cache, air, rcv, mm, pc,
                    ret, ran, inserted_at, nframes, sweep_now, last_update >>
    /\ UNCHANGED snapvars
    /\ UNCHANGED linevars
    /\ UNCHANGED fnvars

NextMutex ==
    \/ MutexReceive
    \/ LockedUpdateData
    \/ SweepScan
    \/ SweepDelete
    \/ Tick

SpecMutex == Init /\ [][NextMutex]_vars

-----------------------------------------------------------------------------
(* SpecSnapshot: the program with a caller that takes Aircrafts() and then *)
(* changes what it was given.  A *Aircraft is modelled as a record: alias  *)
(* says whether it points at the sky's own object for that address, val is *)
(* the content of the object when it is one of its own.                    *)

\* Aircrafts() calls in one behaviour
MaxSnapshots == 1

\* variant: Clone that hands back the pointer it was given
CloneSamePointer(ac) == [alias |-> TRUE, val |-> ac]

\* Clone: clone = *ac; return &clone
Clone(ac) == [alias |-> FALSE, val |-> ac]

\* *ptr for the pointer stored under addr in a snapshot
Deref(ptr, addr) ==
    IF ptr.alias /\ addr \in DOMAIN aircrafts THEN aircrafts[addr] ELSE ptr.val

\* the snapshot as its holder reads it
SnapView == [a \in DOMAIN snap |-> Deref(snap[a], a)]

SnapshotInputs == { Sent(FrameEven), Sent(FrameOdd), Sent(FrameIdent) }

SnapshotReceive == nframes < MaxFrames /\ \E x \in SnapshotInputs : Receive(x)

\* Sky.Aircrafts, lines 68-78
Aircrafts ==
    /\ nsnaps < MaxSnapshots
    /\ snap' = [a \in DOMAIN aircrafts |-> Clone(aircrafts[a])]
    /\ snap_expect' = aircrafts
    /\ nsnaps' = nsnaps + 1
    /\ op' = "Aircrafts"
    /\ UNCHANGED << now, fix_errors, aggressive, icao_cache, air, rcv, mm, pc,
                    aircrafts, ret, ran, inserted_at, nframes >>
    /\ UNCHANGED lockvars
    /\ UNCHANGED linevars
    /\ UNCHANGED fnvars

\* the holder of the snapshot writes a field of one of its records
CallerWrites ==
    /\ \E a \in DOMAIN snap :
          /\ snap_expect[a].Messages # 0
          /\ snap_expect' = [snap_expect EXCEPT ![a].Messages = 0]
          /\ IF snap[a].alias /\ a \in DOMAIN aircrafts
             THEN /\ aircrafts' = [aircrafts EXCEPT ![a].Messages = 0]
                  /\ UNCHANGED snap
             ELSE /\ snap' = [snap EXCEPT ![a].val.Messages = 0]
                  /\ UNCHANGED aircrafts
    /\ op' = "CallerWrites"
    /\ UNCHANGED << now, fix_errors, aggressive, icao_cache, air, rcv, mm, pc,
                    ret, ran, inserted_at, nframes, nsnaps >>
    /\ UNCHANGED lockvars
    /\ UNCHANGED linevars
    /\ UNCHANGED fnvars

\* the holder of the snapshot deletes an entry of its map
CallerDeletes ==
    /\ \E a \in DOMAIN snap :
          /\ snap' = [x \in (DOMAIN snap) \ {a} |-> snap[x]]
          /\ snap_expect' = [x \in (DOMAIN snap_expect) \ {a} |-> snap_expect[x]]
    /\ op' = "CallerDeletes"
    /\ UNCHANGED << now, fix_errors, aggressive, icao_cache, air, rcv, mm, pc,
                    aircrafts, ret, ran, inserted_at, nframes, nsnaps >>
    /\ UNCHANGED lockvars
    /\ UNCHANGED linevars
    /\ UNCHANGED fnvars

NextSnapshot ==
    \/ SnapshotReceive
    \/ UpdateData
    \/ RemoveStaleAircrafts
    \/ Tick
    \/ Aircrafts
    \/ CallerWrites
    \/ CallerDeletes

SpecSnapshot == Init /\ [][NextSnapshot]_vars

-----------------------------------------------------------------------------
(* SpecCpr: the handler fed with airborne-position frames of one aircraft, *)
(* even and odd, in any order and at any of the instants.                  *)

MaxCprFrames == 3

\* a raw odd latitude that, paired with the even half of FrameEven, puts
\* rlat1 in another latitude zone than rlat0 (64.271 against 64.257 degrees)
FarLatitude == 69900

\* FrameOdd with its 17-bit raw latitude replaced by lat
OddWithLat(lat) ==
    Seal([FrameOdd EXCEPT ![7] = (@ - (@ % 4)) + (lat \div 32768),
                          ![8] = (lat \div 128) % 256,
                          ![9] = (lat % 128) * 2 + (@ % 2)],
         MODES_LONG_MSG_BITS)

FrameOddFar == OddWithLat(FarLatitude)

\* an odd half of raw latitude 0: with the even half of FrameEven the
\* latitude index is 42 and both latitudes come out near 256 degrees
FrameOddZero == OddWithLat(0)

CprInputs == { Sent(FrameEven), Sent(FrameOdd), Sent(FrameOddFar), Sent(FrameOddZero) }

CprReceive == nframes < MaxCprFrames /\ \E x \in CprInputs : Receive(x)

NextCpr ==
    \/ CprReceive
    \/ UpdateData
    \/ Tick

SpecCpr == Init /\ [][NextCpr]_vars

-----------------------------------------------------------------------------
(* SpecReceive: the scanner loop of StartReceive.  A line is a sequence of *)
(* one-character strings; the loop reads a line, parses it and, when the   *)
(* result is not nil, calls the handler with it.                           *)

\* lines read in one behaviour
MaxLines == 3

HexChars == << "0", "1", "2", "3", "4", "5", "6", "7",
               "8", "9", "A", "B", "C", "D", "E", "F" >>
LowerHexChars == << "0", "1", "2", "3", "4", "5", "6", "7",
                    "8", "9", "a", "b", "c", "d", "e", "f" >>

\* the value of a digit of base 16, -1 for any other character
DigitValue(c) ==
    IF \E i \in 1..16 : HexChars[i] = c
    THEN (CHOOSE i \in 1..16 : HexChars[i] = c) - 1
    ELSE IF \E i \in 1..16 : LowerHexChars[i] = c
    THEN (CHOOSE i \in 1..16 : LowerHexChars[i] = c) - 1
    ELSE -1

\* strconv.ParseUint(hexstr, 16, 8) on two characters, its error dropped:
\* the value when both are digits, 0 when ParseUint reports a syntax error
parseHex(hexstr) ==
    IF hexstr # << >> /\ \A i \in 1..Len(hexstr) : DigitValue(hexstr[i]) >= 0
    THEN DigitValue(hexstr[1]) * 16 + DigitValue(hexstr[2])
    ELSE 0

isValidMsgText(hexstr) ==
    IF Len(hexstr) # 30 THEN FALSE
    ELSE IF hexstr[1] # "*" \/ hexstr[30] # ";" THEN FALSE
    ELSE TRUE

\* nil is {}, &bin is {bin}
parseADSB(hexstr) ==
    IF isValidMsgText(hexstr)
    THEN { << parseHex(SubSeq(hexstr, 2, 3)),   parseHex(SubSeq(hexstr, 4, 5)),
              parseHex(SubSeq(hexstr, 6, 7)),   parseHex(SubSeq(hexstr, 8, 9)),
              parseHex(SubSeq(hexstr, 10, 11)), parseHex(SubSeq(hexstr, 12, 13)),
              parseHex(SubSeq(hexstr, 14, 15)), parseHex(SubSeq(hexstr, 16, 17)),
              parseHex(SubSeq(hexstr, 18, 19)), parseHex(SubSeq(hexstr, 20, 21)),
              parseHex(SubSeq(hexstr, 22, 23)), parseHex(SubSeq(hexstr, 24, 25)),
              parseHex(SubSeq(hexstr, 26, 27)), parseHex(SubSeq(hexstr, 28, 29)) >> }
    ELSE {}

\* the line rtl_adsb prints for the frame f: *112233445566778899AABBCCDDEE;
FormatLine(f, digits) ==
    << "*" >>
    \o [i \in 1..28 |-> digits[(IF i % 2 = 1 THEN f[(i + 1) \div 2] \div 16
                                              ELSE f[i \div 2] % 16) + 1]]
    \o << ";" >>

LineIdent == FormatLine(FrameIdent, HexChars)

\* the line of a surveillance reply (DF 4) of AddrPos
LineReply == FormatLine(APFrame(FrameEven, 4, AddrPos), HexChars)

InputLines ==
    { LineIdent, LineReply, FormatLine(FrameEven, HexChars),
      FormatLine(FrameOdd, LowerHexChars),
      \* wrong length
      << >>, SubSeq(LineIdent, 1, 29), SubSeq(LineIdent, 2, 30), LineIdent \o << ";" >>,
      \* a delimiter missing
      [LineIdent EXCEPT ![1] = "8"], [LineIdent EXCEPT ![30] = "0"],
      [LineIdent EXCEPT ![1] = ";", ![30] = "*"],
      \* a character that is no digit among the 28
      [LineIdent EXCEPT ![2] = "G"], [LineReply EXCEPT ![15] = " "],
      [LineReply EXCEPT ![29] = "x"] }

\* one iteration of the loop at lines 30-37: scanner.Text(), parseADSB and,
\* for a result other than nil, the handler up to its call of UpdateData
ReadLine ==
    /\ nlines < MaxLines
    /\ pc = "idle"
    /\ \E l \in InputLines :
          /\ line' = l
          /\ \E m \in { parseADSB(l) } :
                /\ parsed' = m
                /\ IF m = {}
                   THEN /\ op' = "Discard"
                        /\ UNCHANGED << now, fix_errors, aggressive, icao_cache, air,
                                        rcv, mm, pc, aircrafts, ret, ran, inserted_at,
                                        nframes >>
                   ELSE \E f \in m : air' = Sent(f) /\ DecodeModesMessageBody(f)
    /\ nlines' = nlines + 1
    /\ UNCHANGED lockvars
    /\ UNCHANGED snapvars
    /\ UNCHANGED fnvars

NextReceive ==
    \/ ReadLine
    \/ UpdateData

SpecReceive == Init /\ [][NextReceive]_vars

-----------------------------------------------------------------------------
(* SpecMod: cprModFunction called on its own, on any dividend between      *)
(* -MaxDividend and MaxDividend and any divisor from 1 to MaxDivisor.      *)

MaxDividend == 70
MaxDivisor == 60

InitMod ==
    \E a \in (-MaxDividend)..MaxDividend, b \in 1..MaxDivisor :
        /\ InitState(TRUE, FALSE, {})
        /\ args = << a, b >>
        /\ result = << >>

CallMod ==
    /\ result = << >>
    /\ result' = << cprModFunction(args[1], args[2]) >>
    /\ op' = "cprModFunction"
    /\ UNCHANGED << now, fix_errors, aggressive, icao_cache, air, rcv, mm, pc,
                    aircrafts, ret, ran, inserted_at, nframes, args >>
    /\ UNCHANGED lockvars
    /\ UNCHANGED snapvars
    /\ UNCHANGED linevars

NextMod == CallMod

SpecMod == InitMod /\ [][NextMod]_vars

-----------------------------------------------------------------------------
(* SpecLive: the program with a ticker that keeps sweeping and a clock     *)
(* that keeps advancing.  The ticker goroutine loops for ever, one sweep a *)
(* second, so a sweep that would delete something is eventually run; the   *)
(* clock advances by LiveStep until every aircraft in the sky is stale.    *)

LiveStep == 30500

\* the latest Seen in the sky
LastSeen ==
    LET seen == {StartTime} \cup {aircrafts[a].Seen : a \in DOMAIN aircrafts}
    IN  CHOOSE t \in seen : \A u \in seen : u <= t

LiveTick ==
    /\ now < LastSeen + (MODES_AIRCRAFT_TTL + 1) * 1000
    /\ Advance(now + LiveStep - StartTime)

LiveInputs == { Sent(FrameEven), Sent(FrameIdent), Sent(CleanFrame(FrameIdent, 18)) }

LiveReceive == nframes < MaxFrames /\ \E x \in LiveInputs : Receive(x)

NextLive ==
    \/ LiveReceive
    \/ UpdateData
    \/ RemoveStaleAircrafts
    \/ LiveTick

SpecLive ==
    /\ Init
    /\ [][NextLive]_vars
    /\ WF_vars(RemoveStaleAircrafts)
    /\ WF_vars(LiveTick)

-----------------------------------------------------------------------------
(* Properties of DecodeModesMessage, checked under SpecDecode *)

Decoded == op = "DecodeModesMessage"

\* the last three bytes of the 14-byte frame f are the parity of its 112 bits
CleanLong(f) ==
    /\ Len(f) = MODES_LONG_MSG_BYTES
    /\ TrailingCrc(f, MODES_LONG_MSG_BYTES) = modesChecksum(f, MODES_LONG_MSG_BITS)

\* the first `bits` bits of f end with their own parity
CleanOver(f, bits) ==
    /\ Len(f) * 8 >= bits
    /\ TrailingCrc(f, bits \div 8) = modesChecksum(f, bits)

\* C1 as stated: every 14-byte frame whose last three bytes are the
\* checksum of its 112 bits decodes with crcok = true and errorbit = -1,
\* whatever its downlink format and whatever the cache holds.
C1_CleanFrameAnyFormat ==
    (Decoded /\ CleanLong(rcv)) => (mm.crcok /\ mm.errorbit = -1)

\* C1 amended: a 14-byte frame of downlink format 17 whose last three bytes
\* are the checksum of its 112 bits decodes with crcok = true and
\* errorbit = -1, whatever the configuration and the cache.
C1_CleanFrameDF17 ==
    (Decoded /\ CleanLong(rcv) /\ rcv[1] \div 8 = 17)
        => (mm.crcok /\ mm.errorbit = -1)

\* a clean DF 17 frame was decoded, with repair off and an empty cache before
C1_Witness ==
    /\ Decoded /\ rcv = FrameIdent /\ CleanLong(rcv)
    /\ ~fix_errors /\ DOMAIN icao_cache = {AddrIdent}
    /\ mm.crcok /\ mm.errorbit = -1 /\ mm.msgtype = 17

\* C2 as stated: a frame F of format 11 or 17 with clean parity, received
\* with any one of its bits flipped while fix_errors is on, decodes with
\* crcok = true, errorbit = the flipped position and the bytes of F.
C2_SingleFlipAnyBit ==
    (/\ Decoded /\ fix_errors /\ Len(air.noise) = 1
     /\ air.sent[1] \div 8 \in {11, 17}
     /\ CleanOver(air.sent, FrameBits(air.sent)))
        => (mm.crcok /\ mm.errorbit = air.noise[1] /\ mm.msg = air.sent)

\* C2 amended: when the frame as received has format 11 or 17, fix_errors is
\* on, and it differs in exactly one bit from a frame F whose parity is clean
\* over the received frame's length, the record has crcok = true, errorbit =
\* the flipped position and the bytes of F.
C2_SingleFlipReceivedFormat ==
    (/\ Decoded /\ fix_errors /\ Len(air.noise) = 1
     /\ rcv[1] \div 8 \in {11, 17}
     /\ air.noise[1] < FrameBits(rcv)
     /\ CleanOver(air.sent, FrameBits(rcv)))
        => (mm.crcok /\ mm.errorbit = air.noise[1] /\ mm.msg = air.sent)

\* bit 30 of a clean DF 17 frame was flipped and the decoder repaired it
C2_Witness ==
    /\ Decoded /\ fix_errors /\ air = Noisy(FrameIdent, << 30 >>)
    /\ rcv # FrameIdent
    /\ mm.crcok /\ mm.errorbit = 30 /\ mm.msg = FrameIdent

\* C3 as stated: fixTwoBitsErrors is called only when aggressive mode is on,
\* the frame is DF 17 and the single-bit repair has failed.
C3_TwoBitsOnlyAggressiveDF17 ==
    (Decoded /\ ran.two) => (aggressive /\ mm.msgtype = 17 /\ ran.single)

\* C4 as stated: errorbit # -1 implies crcok, and a record with crcok = false
\* has errorbit = -1 and the bytes as received.
C4_ErrorBitImpliesCrcOk ==
    Decoded => /\ (mm.errorbit # -1 => mm.crcok)
               /\ (~mm.crcok => (mm.errorbit = -1 /\ mm.msg = rcv))

\* C6: for a frame of an Address/Parity format (DF 0, 4, 5, 16, 20, 21, 24)
\* the candidate address is the checksum XOR the trailing three bytes; the
\* record has crcok = true exactly when that address was inserted into the
\* cache within the last 60 s, and then carries it as its address.
C6_APFrameValidatedByCache ==
    (Decoded /\ mm.msgtype \in {0, 4, 5, 16, 20, 21, 24}) =>
        LET candidate == Xor24(modesChecksum(rcv, mm.msgbits),
                               TrailingCrc(rcv, mm.msgbits \div 8))
            cached == /\ candidate \in DOMAIN inserted_at
                      /\ now - inserted_at[candidate] <= MODES_ICAO_CACHE_TTL * 1000
        IN  /\ mm.crcok <=> cached
            /\ mm.crcok => AddrOf(mm) = candidate

\* a 112-bit Comm-B reply from a cached address was accepted, its address
\* recovered from the parity field
C6_Witness ==
    /\ Decoded /\ mm.msgtype = 20 /\ mm.crcok
    /\ AddrOf(mm) = AddrPos /\ AddrPos \in DOMAIN icao_cache
    /\ TrailingCrc(rcv, MODES_LONG_MSG_BYTES) # modesChecksum(rcv, MODES_LONG_MSG_BITS)

-----------------------------------------------------------------------------
(* Properties of the running program, checked under Spec *)

\* the addresses whose cache entry a step creates or renews
Inserted ==
    { a \in DOMAIN icao_cache' :
        a \notin DOMAIN icao_cache \/ icao_cache'[a] # icao_cache[a] }

\* C5: a step that inserts or refreshes a cache entry is the decoding of a
\* frame of format 11, 17 or 18 with crcok = true and errorbit = -1, and the
\* entry is that frame's address; repaired frames and Address/Parity frames
\* leave the cache as it was.
C5_InsertOnlyCleanDirect ==
    [][ Inserted # {} =>
          /\ op' = "DecodeModesMessage"
          /\ mm'.msgtype \in {11, 17, 18}
          /\ mm'.crcok /\ mm'.errorbit = -1
          /\ Inserted = {AddrOf(mm')} ]_vars

\* a frame repaired by the single-bit search was accepted after its address
\* had been cached by an earlier clean frame, and did not renew the entry
C5_Witness ==
    /\ Decoded /\ Len(air.noise) = 1 /\ mm.crcok /\ mm.errorbit # -1
    /\ AddrOf(mm) \in DOMAIN icao_cache
    /\ inserted_at[AddrOf(mm)] < now
    /\ icao_cache[AddrOf(mm)] = inserted_at[AddrOf(mm)] + MODES_ICAO_CACHE_TTL * 1000

\* C7: an address inserted into the cache at instant t is found by every
\* query up to and including t + 60 s and by no query after t + 60 s; a
\* surveillance reply from that address is accepted in exactly that interval.
C7_CacheEntryLivesSixtySeconds ==
    /\ \A a \in DOMAIN inserted_at :
          icaoAddressWasRecentlySeen(icao_cache, a, now)
              <=> (now - inserted_at[a] <= 60 * 1000)
    /\ (Decoded /\ rcv = APFrame(FrameEven, 4, AddrPos)) =>
          (mm.crcok <=> /\ AddrPos \in DOMAIN inserted_at
                        /\ now - inserted_at[AddrPos] <= 60 * 1000)

\* a surveillance reply was accepted exactly 60 s after its address was cached
C7_Witness ==
    /\ Decoded /\ rcv = APFrame(FrameEven, 4, AddrPos) /\ mm.crcok
    /\ AddrPos \in DOMAIN inserted_at
    /\ now - inserted_at[AddrPos] = 60 * 1000

\* C8 as stated: after RemoveStaleAircrafts every remaining aircraft was
\* refreshed at most 60 s ago.
C8_PruneLeavesOnlyFresh ==
    op = "RemoveStaleAircrafts" =>
        \A a \in DOMAIN aircrafts : now - aircrafts[a].Seen <= 60 * 1000

\* C9: when UpdateData has called decodeCPR the aircraft holds an even and
\* an odd position half whose receive times differ by at most 10000 ms.
C9_CprOnlyOnFreshPair ==
    (op = "UpdateData" /\ ran.cpr) =>
        \A addr \in ret :
            /\ aircrafts[addr].EvenCprTime # 0
            /\ aircrafts[addr].OddCprTime # 0
            /\ Abs(aircrafts[addr].EvenCprTime - aircrafts[addr].OddCprTime) <= 10000

\* decodeCPR ran on halves received 10 s apart and committed a position
C9_Witness ==
    /\ op = "UpdateData" /\ ran.cpr /\ ret = {AddrPos}
    /\ Abs(aircrafts[AddrPos].EvenCprTime - aircrafts[AddrPos].OddCprTime) = 10000
    /\ aircrafts[AddrPos].Latitude # ZeroAngle

\* C10: UpdateData called with a record whose crcok is false returns nil and
\* leaves the map of aircraft exactly as it was.
C10_RejectedLeavesSkyUnchanged ==
    [][ (pc = "decoded" /\ op' = "UpdateData" /\ ~mm.crcok) =>
          (aircrafts' = aircrafts /\ ret' = NilAircraft) ]_vars

\* a rejected record was handed to UpdateData while the sky held an aircraft
C10_Witness ==
    /\ op = "UpdateData" /\ ~mm.crcok /\ ret = NilAircraft
    /\ aircrafts # EmptyMap

\* C11: an UpdateData step taken with crcok = true leaves in the map exactly
\* the aircraft it held plus the one keyed by the record's address, sets
\* that aircraft's Seen to the current time and adds exactly one to its
\* Messages (counted from 0 when the aircraft is created), returns that
\* aircraft, and changes no other aircraft.
C11_AcceptedUpsertsOneAircraft ==
    [][ (pc = "decoded" /\ op' = "UpdateData" /\ mm.crcok) =>
          /\ DOMAIN aircrafts' = (DOMAIN aircrafts) \cup {AddrOf(mm)}
          /\ aircrafts'[AddrOf(mm)].Seen = now
          /\ aircrafts'[AddrOf(mm)].Messages =
                 (IF AddrOf(mm) \in DOMAIN aircrafts
                  THEN aircrafts[AddrOf(mm)].Messages ELSE 0) + 1
          /\ \A x \in (DOMAIN aircrafts) \ {AddrOf(mm)} :
                 aircrafts'[x] = aircrafts[x]
          /\ ret' = {AddrOf(mm)} ]_vars

\* a second message of one aircraft was accepted 10 s after the first
C11_Witness ==
    /\ op = "UpdateData" /\ mm.crcok /\ ret = {AddrPos}
    /\ aircrafts[AddrPos].Messages = 2
    /\ aircrafts[AddrPos].Seen = now /\ now = StartTime + 10000

-----------------------------------------------------------------------------
(* Properties of the two goroutines around sky.mux, checked under SpecMutex *)

\* C12: when a RemoveStaleAircrafts sweep has completed, every aircraft
\* whose last accepted UpdateData completed less than 60 s before the
\* sweep's time.Now() (or while the sweep was in progress) is in the map.
C12_RefreshedSurvivesSweep ==
    (op = "RemoveStaleAircrafts" /\ tpc = "idle") =>
        \A a \in DOMAIN last_update :
            sweep_now - last_update[a] < MODES_AIRCRAFT_TTL * 1000
                => a \in DOMAIN aircrafts

\* a sweep removed an aircraft last refreshed 61 s earlier and kept one
\* refreshed 51 s earlier
C12_Witness ==
    /\ op = "RemoveStaleAircrafts" /\ tpc = "idle"
    /\ DOMAIN last_update = {AddrPos, AddrIdent}
    /\ sweep_now - last_update[AddrPos] = 61000
    /\ sweep_now - last_update[AddrIdent] = 51000
    /\ DOMAIN aircrafts = {AddrIdent}

-----------------------------------------------------------------------------
(* Properties of Aircrafts(), checked under SpecSnapshot *)

\* C13: the map Aircrafts() returned always reads as it was returned and as
\* its holder changed it, whatever UpdateData and RemoveStaleAircrafts did
\* afterwards; and a change the holder makes to the snapshot's map or
\* records leaves the sky's aircraft as they were.
C13_SnapshotIndependent ==
    /\ [](SnapView = snap_expect)
    /\ [][ op' \in {"CallerWrites", "CallerDeletes"} => aircrafts' = aircrafts ]_vars

\* after a snapshot of one aircraft the sky accepted another message of that
\* aircraft; the snapshot still reads as taken
C13_Witness ==
    /\ nsnaps = 1 /\ op = "UpdateData"
    /\ DOMAIN snap = {AddrPos} /\ DOMAIN aircrafts = {AddrPos}
    /\ SnapView[AddrPos].Messages = 1
    /\ aircrafts[AddrPos].Messages = 2

-----------------------------------------------------------------------------
(* Altitude and flag fields -- SpecDecode *)

\* the 11-bit integer of the 12-bit AC field of an extended squitter:
\* the upper seven bits of byte 5 and the upper four bits of byte 6
AC12Code(msg) == (msg[6] \div 2) * 16 + (msg[7] \div 16)

\* the 11-bit integer of the 13-bit AC field with the M and Q bits removed
AC13Code(msg) ==
    (msg[3] % 32) * 64 + Bit(msg[4], 7) * 32 + Bit(msg[4], 5) * 16 + (msg[4] % 16)

AirbornePosition == Decoded /\ mm.msgtype = 17 /\ mm.metype >= 9 /\ mm.metype <= 18

\* C14 as stated: a DF 17 airborne-position frame (ME type 9-18) with Q = 1
\* decodes to altitude N * 25 - 1000 feet, N being the full 11-bit integer
\* of the AC field (38000 for 8D40621D58C382D690C8AC2863A7).
C14_AltitudeFromFullCode ==
    (AirbornePosition /\ Bit(mm.msg[6], 0) = 1) =>
        /\ mm.altitude = AC12Code(mm.msg) * 25 - 1000
        /\ (mm.msg = FrameEven => mm.altitude = 38000)

\* C15 as stated: a DF 0/4/16/20 frame with M = 0 and Q = 1 decodes to
\* altitude N * 25 - 1000, N being the full 11-bit integer with M and Q
\* removed; with M = 0 and Q = 0, or with M = 1, the altitude is 0.
C15_AC13Altitude ==
    (Decoded /\ mm.msgtype \in {0, 4, 16, 20}) =>
        IF Bit(mm.msg[4], 6) = 0 /\ Bit(mm.msg[4], 4) = 1
        THEN mm.altitude = AC13Code(mm.msg) * 25 - 1000
        ELSE mm.altitude = 0

\* C16 as stated: for a DF 17 airborne-position frame the fflag field is 1
\* when bit 2 of byte 6 is set, 0 when it is clear, and nothing else.
C16_OddFlagIsZeroOrOne ==
    AirbornePosition =>
        /\ mm.fflag \in {0, 1}
        /\ mm.fflag = Bit(mm.msg[7], 2)

-----------------------------------------------------------------------------
(* CPR pairs that are not resolved -- SpecCpr *)

\* the aircraft as UpdateData finds it: the entry of addr, or a new one
Before(addr) ==
    IF addr \in DOMAIN aircrafts THEN aircrafts[addr] ELSE NewAircraft(addr, now)

\* C17: when UpdateData applies an airborne-position message and the
\* aircraft's even and odd halves are then more than 10000 ms apart, or their
\* latitudes rlat0 and rlat1 fall in different NL zones, the aircraft's
\* Latitude and Longitude are exactly what they were before the call.
C17_UnresolvedPairKeepsPosition ==
    [][ (pc = "decoded" /\ op' = "UpdateData" /\ mm.crcok
         /\ mm.msgtype = 17 /\ mm.metype >= 9 /\ mm.metype <= 18) =>
          \A addr \in ret' :
              ( \/ Abs(aircrafts'[addr].EvenCprTime - aircrafts'[addr].OddCprTime) > 10000
                \/ cprNLFunction(CprRlat0(aircrafts'[addr]))
                     # cprNLFunction(CprRlat1(aircrafts'[addr])) ) =>
                  /\ aircrafts'[addr].Latitude = Before(addr).Latitude
                  /\ aircrafts'[addr].Longitude = Before(addr).Longitude ]_vars

\* an aircraft with a resolved position received an odd half of another
\* latitude zone within 10 s of its even half: decodeCPR ran and the
\* position resolved from the earlier pair is still there
C17_Witness ==
    /\ op = "UpdateData" /\ ret = {AddrPos} /\ ran.cpr /\ rcv = FrameOddFar
    /\ aircrafts[AddrPos].OddCprLat = FarLatitude
    /\ cprNLFunction(CprRlat0(aircrafts[AddrPos]))
         # cprNLFunction(CprRlat1(aircrafts[AddrPos]))
    /\ aircrafts[AddrPos].Latitude # ZeroAngle

-----------------------------------------------------------------------------
(* Message length and the formats that feed the cache -- SpecDecode *)

\* C18: modesMessageLenByType(df) is 112 exactly for df in {16, 17, 19, 20,
\* 21} and 56 for every other df in 0..31, and the msgbits field of a decoded
\* record is that function of the format of the frame received, whatever the
\* rest of the frame, the configuration and the cache.
C18_BitsFromFormatOnly ==
    /\ \A df \in AllDF :
           modesMessageLenByType(df) = IF df \in {16, 17, 19, 20, 21} THEN 112 ELSE 56
    /\ Decoded =>
           /\ mm.msgtype = rcv[1] \div 8
           /\ mm.msgbits = IF (rcv[1] \div 8) \in {16, 17, 19, 20, 21} THEN 112 ELSE 56

\* a DF 18 frame was decoded as a 56-bit message by an aggressive decoder
\* with a seeded cache
C18_Witness ==
    /\ Decoded /\ rcv[1] \div 8 = 18 /\ mm.msgbits = 56
    /\ aggressive /\ fix_errors /\ icao_cache # EmptyMap

\* C20 as stated: a frame of format 11, 17 or 18 whose parity passes without
\* repair decodes with crcok = true, and the address in its bytes 1-3 is
\* inserted into the cache at that instant.
C20_DF18TreatedAsPureCrc ==
    (Decoded /\ (rcv[1] \div 8) \in {11, 17, 18} /\ CleanOver(rcv, FrameBits(rcv))) =>
        /\ mm.crcok
        /\ mm.errorbit = -1
        /\ (rcv[2] * 65536 + rcv[3] * 256 + rcv[4]) \in DOMAIN inserted_at
        /\ inserted_at[rcv[2] * 65536 + rcv[3] * 256 + rcv[4]] = now

-----------------------------------------------------------------------------
(* Lines that are not frames -- SpecReceive *)

IsHexDigit(c) ==
    c \in { "0", "1", "2", "3", "4", "5", "6", "7", "8", "9",
            "a", "b", "c", "d", "e", "f", "A", "B", "C", "D", "E", "F" }

\* wrong length, a delimiter missing, or a non-hex character among the 28
Malformed(l) ==
    \/ Len(l) # 30
    \/ l[1] # "*"
    \/ l[30] # ";"
    \/ \E i \in 2..29 : ~IsHexDigit(l[i])

\* C19 as stated: when the line read is malformed in any of the three ways,
\* parseADSB returns nil and the handler is not called for it: the loop
\* discards the line and DecodeModesMessage does not run.
C19_MalformedLineDiscarded ==
    (op \in {"Discard", "DecodeModesMessage"} /\ Malformed(line)) =>
        (parsed = {} /\ op = "Discard")

-----------------------------------------------------------------------------
(* The callsign an identification message leaves in the sky -- Spec *)

\* the characters a terminal prints: space to tilde
Printable(c) == c >= 32 /\ c <= 126

\* C21 as stated: after UpdateData has applied a DF 17 identification
\* message (ME type 1-4) the aircraft's Flight is exactly the 8 characters
\* decoded from bytes 5-10 through ais_charset, all of them printable.
C21_CallsignEightPrintable ==
    (op = "UpdateData" /\ mm.msgtype = 17 /\ mm.metype >= 1 /\ mm.metype <= 4) =>
        \A addr \in ret :
            /\ aircrafts[addr].Flight = SubSeq(DecodeFlight(mm.msg), 1, 8)
            /\ \A i \in 1..Len(aircrafts[addr].Flight) :
                   Printable(aircrafts[addr].Flight[i])

-----------------------------------------------------------------------------
(* Ground speed -- SpecDecode *)

\* sqrt(n) rounded to the nearest integer
RoundSqrt(n) ==
    CHOOSE r \in 0..1448 :
        /\ 4 * n < (2 * r + 1) * (2 * r + 1)
        /\ (r = 0 \/ 4 * n >= (2 * r - 1) * (2 * r - 1))

\* C22 as stated: for a DF 17 frame of ME type 19, subtype 1 or 2, the
\* decoded velocity is sqrt(ew_velocity^2 + ns_velocity^2) rounded to the
\* nearest integer.
C22_GroundSpeedRounded ==
    (Decoded /\ mm.msgtype = 17 /\ mm.metype = 19 /\ mm.mesub \in {1, 2}) =>
        mm.velocity = RoundSqrt(mm.ew_velocity * mm.ew_velocity
                                + mm.ns_velocity * mm.ns_velocity)

-----------------------------------------------------------------------------
(* The modulo of the CPR decoder -- SpecMod *)

\* C23: for every integer a and every b > 0, cprModFunction(a, b) is
\* ((a % b) + b) % b with the % of Go, is at least 0 and less than b, and is
\* congruent to a modulo b.
C23_ModNonNegative ==
    (op = "cprModFunction") =>
        /\ result[1] = GoRem(GoRem(args[1], args[2]) + args[2], args[2])
        /\ result[1] >= 0
        /\ result[1] < args[2]
        /\ result[1] = args[1] % args[2]

\* the function was called on a negative dividend that the divisor does not
\* divide, where the remainder of Go is negative
C23_Witness ==
    /\ op = "cprModFunction" /\ args = << -7, 60 >>
    /\ GoRem(args[1], args[2]) = -7
    /\ result = << 53 >>

-----------------------------------------------------------------------------
(* Address/Parity frames and the sky -- Spec *)

\* C24: a frame of an Address/Parity format (DF 0, 4, 5, 16, 20, 21, 24) is
\* accepted only when the address recovered from it was inserted into the
\* cache at most 60 s before; UpdateData creates or updates an aircraft for
\* such a frame only when it was accepted, and only the aircraft of that
\* address; and the cache receives an address only from a DF 11 or DF 17
\* frame whose parity passed without repair.
C24_APFrameNeedsCachedAddress ==
    /\ [][ (op' = "DecodeModesMessage" /\ mm'.msgtype \in APFormats /\ mm'.crcok) =>
             /\ AddrOf(mm') \in DOMAIN inserted_at
             /\ now - inserted_at[AddrOf(mm')] >= 0
             /\ now - inserted_at[AddrOf(mm')] <= 60 * 1000 ]_vars
    /\ [][ (op' = "UpdateData" /\ mm.msgtype \in APFormats /\ aircrafts' # aircrafts) =>
             /\ mm.crcok
             /\ ret' = {AddrOf(mm)}
             /\ AddrOf(mm) \in DOMAIN inserted_at
             /\ \A a \in (DOMAIN aircrafts) \ {AddrOf(mm)} :
                    a \in DOMAIN aircrafts' /\ aircrafts'[a] = aircrafts[a] ]_vars
    /\ [][ inserted_at' # inserted_at =>
             /\ op' = "DecodeModesMessage"
             /\ mm'.msgtype \in {11, 17}
             /\ CleanOver(rcv', mm'.msgbits)
             /\ mm'.errorbit = -1
             /\ DOMAIN inserted_at' = (DOMAIN inserted_at) \cup {AddrOf(mm')}
             /\ inserted_at'[AddrOf(mm')] = now ]_vars

\* a surveillance reply updated the aircraft whose address a clean DF 17
\* frame had put into the cache 10 s before
C24_Witness ==
    /\ op = "UpdateData" /\ mm.msgtype = 4 /\ mm.crcok /\ ret = {AddrPos}
    /\ aircrafts[AddrPos].Messages = 2
    /\ AddrPos \in DOMAIN inserted_at
    /\ now - inserted_at[AddrPos] = 10000

-----------------------------------------------------------------------------
(* The range of a committed position -- SpecCpr *)

\* -90 <= angle <= 90 degrees
LatitudeInRange(a) == 4 * a.k >= -(a.n * CPR_SCALE) /\ 4 * a.k <= a.n * CPR_SCALE

\* -180 < angle <= 180 degrees
LongitudeInRange(a) == 2 * a.k > -(a.n * CPR_SCALE) /\ 2 * a.k <= a.n * CPR_SCALE

\* C25 as stated: the latitude decodeCPR stores is in [-90, 90] and the
\* longitude in (-180, 180], whatever the raw even and odd halves.
C25_PositionInRange ==
    (op = "UpdateData" /\ ran.cpr) =>
        \A addr \in ret :
            /\ LatitudeInRange(aircrafts[addr].Latitude)
            /\ LongitudeInRange(aircrafts[addr].Longitude)

-----------------------------------------------------------------------------
(* Pointers to stored records -- SpecSnapshot *)

\* the addresses whose stored record the caller of the last UpdateData was
\* handed: line 138 returns a, the pointer kept in sky.aircrafts
ReturnedAliases == { a \in ret : a \in DOMAIN aircrafts }

\* C26 as stated: no caller is ever handed a pointer to a record stored in
\* the map; every record a caller holds is a clone, so a stored record is
\* read and written only inside the methods that hold sky.mux.
C26_CallersHoldOnlyClones ==
    /\ \A a \in DOMAIN snap : ~snap[a].alias
    /\ ReturnedAliases = {}

-----------------------------------------------------------------------------
(* Aircraft that fall silent -- SpecLive *)

LiveAddrs == {AddrPos, AddrIdent}

\* C27: an aircraft in the sky that receives no further accepted message is
\* eventually absent from the map; an aircraft leaves the map only in a
\* RemoveStaleAircrafts sweep, and one that is absent comes back only when
\* UpdateData accepts a message of its address.
C27_SilentAircraftRemoved ==
    /\ \A a \in LiveAddrs : (a \in DOMAIN aircrafts) ~> (a \notin DOMAIN aircrafts)
    /\ [][ \A a \in LiveAddrs :
              /\ (a \in DOMAIN aircrafts /\ a \notin DOMAIN aircrafts') =>
                     op' = "RemoveStaleAircrafts"
              /\ (a \notin DOMAIN aircrafts /\ a \in DOMAIN aircrafts') =>
                     (op' = "UpdateData" /\ mm.crcok /\ ret' = {a}) ]_vars

\* an aircraft that was updated once is gone after a sweep, 61 s or more
\* after the start
C27_Witness ==
    /\ op = "RemoveStaleAircrafts" /\ ret = {AddrPos}
    /\ AddrPos \notin DOMAIN aircrafts
    /\ now - StartTime >= 61000


=============================================================================
